---- MODULE Spec2Model ----
(***************************************************************************)
(* A model of flowmeter (src/flowmeter.go): per-flow ring buffers of       *)
(* per-second aggregates, the UDP ingestion handler, the one-second ticker *)
(* and the /meter HTTP query handler.                                      *)
(*                                                                         *)
(* Floating point values are modelled by exact rationals over small        *)
(* integers: a sample is an integer, a sum is an integer, and an average   *)
(* is a reduced fraction [num, den].                                       *)
(***************************************************************************)
EXTENDS Integers, Sequences, FiniteSets, TLC

\* ---------------------------------------------------------------- bounds
MaxExpire == 2          \* largest configured expire / default expire
MaxSamples == 2         \* datagrams accepted into a flow over a run
\* ticks of the one-second ticker over a run: enough to expire the largest
\* ring once and advance it once more
MaxTicks == MaxExpire + 1

Names == {"cpu", "gpu"} \* flow names that appear in datagrams and queries
Values == {-1, 1}       \* sample values carried by datagrams
Windows == 0..(MaxExpire + 1)   \* window parameters that parse as uint

\* ------------------------------------------------------------ arithmetic
Abs(x) == IF x < 0 THEN -x ELSE x

RECURSIVE GCD(_, _)
GCD(a, b) == IF b = 0 THEN a ELSE GCD(b, a % b)

\* float64(0) and the quotient sum / float64(count), count > 0
Float(x) == [num |-> x, den |-> 1]
Quot(sum, count) ==
    LET g == GCD(Abs(sum), count)
    IN  [num |-> sum \div g, den |-> count \div g]

\* the value of a field that a response struct does not have
Absent == [num |-> 0, den |-> 0]

\* ------------------------------------------------------------- flowData
\* datapointsGroup{}: the zero value of a bucket
datapointsGroup == [count |-> 0, sum |-> 0]

\* a rotation that clears the bucket it leaves instead of the one it enters
advanceHead_ClearsOld(fm) ==
    LET head == (fm.head + 1) % fm.capacity
    IN  [fm EXCEPT !.head = head, !.datapoints[fm.head] = datapointsGroup]

\* a rotation that moves the head and clears nothing
advanceHead_KeepsBucket(fm) ==
    [fm EXCEPT !.head = (fm.head + 1) % fm.capacity]

advanceHead(fm) ==
    LET head == (fm.head + 1) % fm.capacity
    IN  [fm EXCEPT !.head = head, !.datapoints[head] = datapointsGroup]

\* an accumulate that forgets to count the datapoint
addData_NoCount(fm, point) ==
    [fm EXCEPT !.datapoints[fm.head].sum = @ + point]

addData(fm, point) ==
    [fm EXCEPT !.datapoints[fm.head].count = @ + 1,
               !.datapoints[fm.head].sum = @ + point]

\* a scan that starts one bucket too far back
NLastPoints_SkipsHead(fm, n) ==
    LET m == IF n > fm.capacity THEN fm.capacity ELSE n
    IN  [i \in 0..(m - 1) |->
            fm.datapoints[(fm.capacity + fm.head - i - 1 + fm.capacity) % fm.capacity]]

\* a scan that does not cut n down to the capacity
NLastPoints_NoClamp(fm, n) ==
    [i \in 0..(n - 1) |->
        fm.datapoints[(fm.capacity * (n + 1) + fm.head - i) % fm.capacity]]

NLastPoints(fm, n) ==
    LET m == IF n > fm.capacity THEN fm.capacity ELSE n
    IN  [i \in 0..(m - 1) |->
            fm.datapoints[(fm.capacity + fm.head - i) % fm.capacity]]

\* the range loop of MovingAverage: running count and sum over points[0..k-1]
RECURSIVE Accumulate(_, _)
Accumulate(points, k) ==
    IF k = 0 THEN datapointsGroup
    ELSE LET acc == Accumulate(points, k - 1)
         IN  [count |-> acc.count + points[k - 1].count,
              sum |-> acc.sum + points[k - 1].sum]

MovingAverage(fm, n) ==
    LET points == NLastPoints(fm, n)
        total == Accumulate(points, Cardinality(DOMAIN points))
    IN  IF total.count = 0 THEN Float(0)
        ELSE Quot(total.sum, total.count)

\* an initFlow that takes the default capacity whatever expire says
initFlow_IgnoresExpire(map, defaultExpire, name, expire) ==
    LET capacity == defaultExpire
        fd == [datapoints |-> [i \in 0..(capacity - 1) |-> datapointsGroup],
               head |-> 0, capacity |-> capacity]
    IN  [n \in (DOMAIN map) \cup {name} |-> IF n = name THEN fd ELSE map[n]]

\* initFlow(name, expire) on the flow map `map` with config default `defaultExpire`
initFlow(map, defaultExpire, name, expire) ==
    LET capacity == IF expire > 0 THEN expire ELSE defaultExpire
        fd == [datapoints |-> [i \in 0..(capacity - 1) |-> datapointsGroup],
               head |-> 0, capacity |-> capacity]
    IN  [n \in (DOMAIN map) \cup {name} |-> IF n = name THEN fd ELSE map[n]]

\* ---------------------------------------------------------------- inputs
\* the "window" form value: missing, not a number, or one decimal digit
Digits == <<"0", "1", "2", "3", "4", "5", "6", "7", "8", "9">>
WindowValues == {"", "x"} \cup {Digits[w + 1] : w \in Windows}
\* the "flow" form value: missing or a flow name
FlowValues == {""} \cup Names

\* strconv.ParseUint(windowValue, 10, 32)
ParseUint(s) ==
    IF \E d \in 1..Len(Digits) : Digits[d] = s
    THEN [err |-> FALSE, val |-> (CHOOSE d \in 1..Len(Digits) : Digits[d] = s) - 1]
    ELSE [err |-> TRUE, val |-> 0]

\* what conn.Read and the parsing of the payload can deliver
Payloads ==
    {[kind |-> k, name |-> "", value |-> 0] :
        k \in {"readerr", "toolong", "broken", "badfloat"}}
    \cup {[kind |-> "ok", name |-> n, value |-> v] : n \in Names, v \in Values}

\* config.Flows: no predefined flow, one, two, or the same name twice
FlowConfig(name, expire) == [Name |-> name, Expire |-> expire]
PredefinedLists ==
    {<<>>}
    \cup {<<FlowConfig("cpu", e)>> : e \in 0..MaxExpire}
    \cup {<<FlowConfig("cpu", MaxExpire), FlowConfig("gpu", 1)>>,
          <<FlowConfig("cpu", 1), FlowConfig("cpu", MaxExpire)>>}
Configs ==
    [ImplicitCreate : BOOLEAN, DefaultExpire : 1..MaxExpire,
     PredefinedFlows : PredefinedLists]

\* ----------------------------------------------------------------- state
VARIABLES
    config,     \* config.Flows, fixed once init() has parsed it
    flowMap,    \* flowMap: registered name -> flowData
    stat,       \* per flow: calls of addData / advanceHead seen since initFlow
    nSamples,   \* datagrams stored so far
    nTicks,     \* ticks delivered so far
    last,       \* the last handler that ran, its inputs and what it reported
    \* the goroutines and init(), for the specifications that run them
    \* statement by statement (Spec runs whole handlers and leaves these alone)
    boot,       \* init(): entries of PredefinedFlows already passed to initFlow
    panicked,   \* "" or the run-time panic that ended the process
    ticker,     \* the ticker goroutine: where it is in its range over flowMap
    receiver,   \* the receiving goroutine: where it is in receiveData
    handler,    \* an HTTP goroutine: where it is in httpMeter / MovingAverage
    \* what has been observed of the run
    made,       \* per name: flowData values initFlow has allocated for it
    born,       \* per flow: ticks completed when it was inserted, and whether
                \* the ticker was then in the middle of its range
    quiet,      \* flowMap as it was when last no write to a flow was half done
    run         \* per flow: the addData calls completed since the last advanceHead

stepVars == <<boot, panicked, ticker, receiver, handler, made, born, quiet, run>>

vars == <<config, flowMap, stat, nSamples, nTicks, last, stepVars>>

\* the record of a handler run: for httpMeter, templateData.Success with
\* Data.Error and Data.Average (Absent when Data has no such field; FlowName
\* and Window echo the request and are left out); for receiveData, whether the
\* datapoint was stored and why not
Report(op, success, error, average) ==
    [op |-> op, Success |-> success, Error |-> error, Average |-> average]

\* counters of a flow nobody has touched since initFlow
FreshStat == [adds |-> 0, total |-> 0, advances |-> 0, sinceAdd |-> 0]

\* init(): the loop over config.Flows.PredefinedFlows
RECURSIVE initFlows(_, _, _)
initFlows(map, defaultExpire, list) ==
    IF list = <<>> THEN map
    ELSE initFlows(initFlow(map, defaultExpire, Head(list).Name, Head(list).Expire),
                   defaultExpire, Tail(list))

\* goroutines that have not started a handler
IdleTicker == [pc |-> "idle", atStart |-> {}, visited |-> {}, cur |-> ""]
IdleReceiver == [pc |-> "idle", flowName |-> "", value |-> 0, index |-> 0,
                 crossed |-> FALSE]
IdleHandler ==
    [pc |-> "idle", flowName |-> "", n |-> 0, i |-> 0, count |-> 0, sum |-> 0,
     allowed |-> {}, response |-> Report("init", TRUE, "", Absent)]

\* a flow as observed right after initFlow
FreshBorn(ticks, mid) == [at |-> ticks, mid |-> mid]
FreshRun(fm) == [base |-> fm.datapoints[fm.head], calls |-> 0, total |-> 0]

\* the number of entries of `list` that name `name`
Occurrences(list, name) ==
    Cardinality({i \in 1..Len(list) : list[i].Name = name})

\* the goroutines and the observations once init() has returned with `map`
AfterInit(map, list) ==
    /\ boot = Len(list)
    /\ panicked = ""
    /\ ticker = IdleTicker
    /\ receiver = IdleReceiver
    /\ handler = IdleHandler
    /\ made = [n \in Names |-> Occurrences(list, n)]
    /\ born = [n \in DOMAIN map |-> FreshBorn(0, FALSE)]
    /\ quiet = map
    /\ run = [n \in DOMAIN map |-> FreshRun(map[n])]

Init ==
    /\ config \in Configs
    /\ flowMap = initFlows(<<>>, config.DefaultExpire, config.PredefinedFlows)
    /\ stat = [n \in DOMAIN flowMap |-> FreshStat]
    /\ nSamples = 0
    /\ nTicks = 0
    /\ last = Report("init", TRUE, "", Absent)
    /\ AfterInit(flowMap, config.PredefinedFlows)

\* --------------------------------------------------------------- actions
\* a receiveData that allocates the flow anew for every datagram
receiveData_AlwaysInit(payload) ==
    LET flowName == payload.name
        value == payload.value
        exists == flowName \in DOMAIN flowMap
        created == initFlow(flowMap, config.DefaultExpire, flowName, 0)
        old == IF exists THEN stat[flowName] ELSE FreshStat
    IN
    IF payload.kind # "ok" THEN
        /\ last' = Report("receive", FALSE, "payload rejected", Absent)
        /\ UNCHANGED <<config, flowMap, stat, nSamples, nTicks>>
    ELSE IF ~exists /\ ~config.ImplicitCreate THEN
        /\ last' = Report("receive", FALSE, "unknown flow", Absent)
        /\ UNCHANGED <<config, flowMap, stat, nSamples, nTicks>>
    ELSE
        /\ nSamples < MaxSamples
        /\ flowMap' = [created EXCEPT ![flowName] = addData(@, value)]
        /\ stat' = [n \in DOMAIN created |->
                      IF n = flowName
                      THEN [old EXCEPT !.adds = @ + 1, !.total = @ + value,
                                       !.sinceAdd = 0]
                      ELSE stat[n]]
        /\ nSamples' = nSamples + 1
        /\ last' = Report("receive", TRUE, "", Absent)
        /\ UNCHANGED <<config, nTicks>>

\* a receiveData that creates unknown flows whatever the configuration says
receiveData_IgnoresPolicy(payload) ==
    LET flowName == payload.name
        value == payload.value
        exists == flowName \in DOMAIN flowMap
        created == IF exists THEN flowMap
                   ELSE initFlow(flowMap, config.DefaultExpire, flowName, 0)
        old == IF exists THEN stat[flowName] ELSE FreshStat
    IN
    IF payload.kind # "ok" THEN
        /\ last' = Report("receive", FALSE, "payload rejected", Absent)
        /\ UNCHANGED <<config, flowMap, stat, nSamples, nTicks>>
    ELSE
        /\ nSamples < MaxSamples
        /\ flowMap' = [created EXCEPT ![flowName] = addData(@, value)]
        /\ stat' = [n \in DOMAIN created |->
                      IF n = flowName
                      THEN [old EXCEPT !.adds = @ + 1, !.total = @ + value,
                                       !.sinceAdd = 0]
                      ELSE stat[n]]
        /\ nSamples' = nSamples + 1
        /\ last' = Report("receive", TRUE, "", Absent)
        /\ UNCHANGED <<config, nTicks>>

\* a receiveData that creates the unknown flow and drops the datagram that
\* announced it
receiveData_DropsFirst(payload) ==
    LET flowName == payload.name
        value == payload.value
        exists == flowName \in DOMAIN flowMap
        created == IF exists THEN flowMap
                   ELSE initFlow(flowMap, config.DefaultExpire, flowName, 0)
        old == IF exists THEN stat[flowName] ELSE FreshStat
    IN
    IF payload.kind # "ok" THEN
        /\ last' = Report("receive", FALSE, "payload rejected", Absent)
        /\ UNCHANGED <<config, flowMap, stat, nSamples, nTicks>>
    ELSE IF ~exists /\ ~config.ImplicitCreate THEN
        /\ last' = Report("receive", FALSE, "unknown flow", Absent)
        /\ UNCHANGED <<config, flowMap, stat, nSamples, nTicks>>
    ELSE
        /\ nSamples < MaxSamples
        /\ flowMap' = IF exists
                      THEN [created EXCEPT ![flowName] = addData(@, value)]
                      ELSE created
        /\ stat' = [n \in DOMAIN created |->
                      IF n = flowName /\ exists
                      THEN [old EXCEPT !.adds = @ + 1, !.total = @ + value,
                                       !.sinceAdd = 0]
                      ELSE IF n = flowName THEN FreshStat
                      ELSE stat[n]]
        /\ nSamples' = nSamples + 1
        /\ last' = Report("receive", TRUE, "", Absent)
        /\ UNCHANGED <<config, nTicks>>

\* one datagram through receiveData
receiveData(payload) ==
    LET flowName == payload.name
        value == payload.value
        exists == flowName \in DOMAIN flowMap
        created == IF exists THEN flowMap
                   ELSE initFlow(flowMap, config.DefaultExpire, flowName, 0)
        old == IF exists THEN stat[flowName] ELSE FreshStat
    IN
    IF payload.kind # "ok" THEN
        /\ last' = Report("receive", FALSE, "payload rejected", Absent)
        /\ UNCHANGED <<config, flowMap, stat, nSamples, nTicks>>
    ELSE IF ~exists /\ ~config.ImplicitCreate THEN
        /\ last' = Report("receive", FALSE, "unknown flow", Absent)
        /\ UNCHANGED <<config, flowMap, stat, nSamples, nTicks>>
    ELSE
        /\ nSamples < MaxSamples
        /\ flowMap' = [created EXCEPT ![flowName] = addData(@, value)]
        /\ stat' = [n \in DOMAIN created |->
                      IF n = flowName
                      THEN [old EXCEPT !.adds = @ + 1, !.total = @ + value,
                                       !.sinceAdd = 0]
                      ELSE stat[n]]
        /\ nSamples' = nSamples + 1
        /\ last' = Report("receive", TRUE, "", Absent)
        /\ UNCHANGED <<config, nTicks>>

\* one tick of timeTicker: the loop over flowMap
Tick ==
    /\ nTicks < MaxTicks
    /\ flowMap' = [n \in DOMAIN flowMap |-> advanceHead(flowMap[n])]
    /\ stat' = [n \in DOMAIN stat |->
                  [stat[n] EXCEPT !.advances = @ + 1, !.sinceAdd = @ + 1]]
    /\ nTicks' = nTicks + 1
    /\ last' = Report("tick", TRUE, "", Absent)
    /\ UNCHANGED <<config, nSamples>>

\* an httpMeter that registers the flow it was asked about
httpMeter_Registers(flowName, windowValue) ==
    /\ last' = IF flowName \in Names \ DOMAIN flowMap
               THEN Report("meter", FALSE, "unknown flow", Absent)
               ELSE Report("meter", FALSE,
                           "flow and window are required parameters", Absent)
    /\ flowMap' = IF flowName \in Names \ DOMAIN flowMap
                  THEN initFlow(flowMap, config.DefaultExpire, flowName, 0)
                  ELSE flowMap
    /\ stat' = [n \in DOMAIN flowMap' |->
                  IF n \in DOMAIN stat THEN stat[n] ELSE FreshStat]
    /\ UNCHANGED <<config, nSamples, nTicks>>

\* templateData as httpMeter leaves it for the form values it was given
meterResponse(flowName, windowValue) ==
    LET win == ParseUint(windowValue)
        window == win.val
    IN  IF flowName = "" \/ windowValue = ""
        THEN Report("meter", FALSE,
                    "flow and window are required parameters", Absent)
        ELSE IF win.err
        THEN Report("meter", FALSE,
                    "window is cannot be converted to uint", Absent)
        ELSE IF flowName \in DOMAIN flowMap
        THEN Report("meter", TRUE, "", MovingAverage(flowMap[flowName], window))
        ELSE Report("meter", FALSE, "unknown flow", Absent)

\* one request through httpMeter
httpMeter(flowName, windowValue) ==
    /\ last' = meterResponse(flowName, windowValue)
    /\ UNCHANGED <<config, flowMap, stat, nSamples, nTicks>>

Next ==
    \/ \E payload \in Payloads : receiveData(payload) /\ UNCHANGED stepVars
    \/ Tick /\ UNCHANGED stepVars
    \/ \E flowName \in FlowValues, windowValue \in WindowValues :
          httpMeter(flowName, windowValue) /\ UNCHANGED stepVars

Spec == Init /\ [][Next]_vars

\* ------------------------------------------------- vocabulary of the claims
\* the decimal text of a window
WindowText(n) == Digits[n + 1]

\* the bucket indices a window of n seconds covers: the current bucket and
\* the min(n, capacity) - 1 before it, with wraparound
Min(a, b) == IF a < b THEN a ELSE b
Covered(fm, n) ==
    {(fm.capacity + fm.head - i) % fm.capacity : i \in 0..(Min(n, fm.capacity) - 1)}

RECURSIVE CountOver(_, _)
CountOver(fm, idx) ==
    IF idx = {} THEN 0
    ELSE LET i == CHOOSE x \in idx : TRUE
         IN  fm.datapoints[i].count + CountOver(fm, idx \ {i})

RECURSIVE SumOver(_, _)
SumOver(fm, idx) ==
    IF idx = {} THEN 0
    ELSE LET i == CHOOSE x \in idx : TRUE
         IN  fm.datapoints[i].sum + SumOver(fm, idx \ {i})

\* the average `avg` is the fraction sum / count
IsRatio(avg, sum, count) ==
    /\ avg.den > 0
    /\ avg.num * count = sum * avg.den

AllZero(fm) == \A i \in DOMAIN fm.datapoints : fm.datapoints[i] = datapointsGroup

\* ------------------------------------------------------------------- C1
\* C1: for a flow that has seen addData calls and no advanceHead since it
\* was created, MovingAverage(1) is the sum of the added values divided by
\* the number of calls.
C1_FreshAverage ==
    \A name \in DOMAIN flowMap :
        (stat[name].advances = 0 /\ stat[name].adds > 0) =>
            IsRatio(MovingAverage(flowMap[name], 1),
                    stat[name].total, stat[name].adds)

C1_Witness ==
    \E name \in DOMAIN flowMap :
        /\ stat[name].advances = 0
        /\ stat[name].adds >= 2
        /\ stat[name].total # 0
        /\ last.op = "receive" /\ last.Success

\* ------------------------------------------------------------------- C2
\* C2: for every flow and every window n whose covered buckets hold a
\* sample, MovingAverage(n) is (sum of sums) / (sum of counts) over exactly
\* the min(n, capacity) buckets at (capacity + head - i) mod capacity, each
\* counted once.
C2_WindowAverage ==
    \A name \in DOMAIN flowMap : \A n \in Windows :
        LET fm == flowMap[name]
            idx == Covered(fm, n)
        IN  /\ Cardinality(idx) = Min(n, fm.capacity)
            /\ CountOver(fm, idx) > 0 =>
                  IsRatio(MovingAverage(fm, n), SumOver(fm, idx), CountOver(fm, idx))

\* a window of two seconds that wraps around the ring and finds samples of
\* different seconds in both buckets
C2_Witness ==
    \E name \in DOMAIN flowMap :
        LET fm == flowMap[name]
        IN  /\ fm.capacity = 2
            /\ fm.head = 0
            /\ fm.datapoints[0].count > 0
            /\ fm.datapoints[1].count > 0
            /\ fm.datapoints[0].sum # fm.datapoints[1].sum

\* ------------------------------------------------------------------- C3
\* C3: a tick's advanceHead sets head to (head + 1) mod capacity, resets
\* the bucket at the new head to {0, 0} and leaves every other bucket (and
\* the capacity) of the flow as it was.
C3_AdvanceFrame ==
    [][nTicks' = nTicks + 1 =>
        /\ DOMAIN flowMap' = DOMAIN flowMap
        /\ \A name \in DOMAIN flowMap :
              LET old == flowMap[name]
                  new == flowMap'[name]
              IN  /\ new.head = (old.head + 1) % old.capacity
                  /\ new.capacity = old.capacity
                  /\ DOMAIN new.datapoints = DOMAIN old.datapoints
                  /\ new.datapoints[new.head] = datapointsGroup
                  /\ \A i \in DOMAIN old.datapoints :
                        i # new.head => new.datapoints[i] = old.datapoints[i]
    ]_vars

\* a tick has just left the samples of the previous second in place
C3_Witness ==
    /\ last.op = "tick"
    /\ \E name \in DOMAIN flowMap :
          LET fm == flowMap[name]
          IN  /\ fm.capacity = 2
              /\ fm.datapoints[fm.head] = datapointsGroup
              /\ fm.datapoints[1 - fm.head].count > 0

\* ------------------------------------------------------------------- C4
\* C4: for every flow and every n >= capacity, MovingAverage(n) is
\* MovingAverage(capacity).
C4_Saturation ==
    \A name \in DOMAIN flowMap :
        \A n \in Windows \cup {MaxExpire + 2, 2 * MaxExpire + 1} :
            n >= flowMap[name].capacity =>
                MovingAverage(flowMap[name], n)
                    = MovingAverage(flowMap[name], flowMap[name].capacity)

\* a ring of two buckets with different contents: counting one of them
\* twice would move the average
C4_Witness ==
    \E name \in DOMAIN flowMap :
        LET fm == flowMap[name]
        IN  /\ fm.capacity = 2
            /\ fm.datapoints[0].count > 0
            /\ fm.datapoints[1].count > 0
            /\ fm.datapoints[0].sum # fm.datapoints[1].sum
            /\ last.op = "meter" /\ last.Success

\* ------------------------------------------------------------------- C5
\* a result that reports "no data": not a number, and not "unknown flow"
IsNoData(r) == r.Average = Absent /\ r.Error # "unknown flow"

\* C5: once capacity + 1 ticks have advanced a flow with no addData in
\* between, every bucket of the flow is {0, 0} and a query for the window
\* `capacity` reports NoData.
C5_ExpiredNoData ==
    \A name \in DOMAIN flowMap :
        stat[name].sinceAdd = flowMap[name].capacity + 1 =>
            /\ AllZero(flowMap[name])
            /\ IsNoData(meterResponse(name, WindowText(flowMap[name].capacity)))

\* the half of C5 that is about the buckets alone
C5_ExpiredZero ==
    \A name \in DOMAIN flowMap :
        stat[name].sinceAdd = flowMap[name].capacity + 1 => AllZero(flowMap[name])

\* ------------------------------------------------------------------- C6
\* C6: the result of a query whose window holds no sample is neither the
\* "unknown flow" result nor the result of any query whose window holds
\* samples (in particular samples that average to zero).
C6_NoDataDistinct ==
    \A name \in DOMAIN flowMap : \A n \in Windows :
        CountOver(flowMap[name], Covered(flowMap[name], n)) = 0 =>
            LET r == meterResponse(name, WindowText(n))
            IN  /\ r.Error # "unknown flow"
                /\ \A other \in DOMAIN flowMap : \A m \in Windows :
                      CountOver(flowMap[other], Covered(flowMap[other], m)) > 0 =>
                          meterResponse(other, WindowText(m)) # r

\* ------------------------------------------------------------------- C7
\* C7: a query for a name that is not registered answers "unknown flow",
\* and no query changes the set of registered names or any flow.
C7_QueryUnknown ==
    [][/\ last'.op = "meter" => flowMap' = flowMap
       /\ \A name \in Names \ DOMAIN flowMap : \A n \in Windows :
             httpMeter(name, WindowText(n)) =>
                /\ ~last'.Success
                /\ last'.Error = "unknown flow"
                /\ last'.Average = Absent
                /\ flowMap' = flowMap
    ]_vars

\* "unknown flow" was answered while another flow held samples
C7_Witness ==
    /\ last.op = "meter"
    /\ last.Error = "unknown flow"
    /\ Names \ DOMAIN flowMap # {}
    /\ \E name \in DOMAIN flowMap : ~AllZero(flowMap[name])

\* ------------------------------------------------------------------- C8
\* C8: a datagram for a registered name goes into the flow that is already
\* there: capacity, head and every other bucket stay, and the current bucket
\* keeps what it held and gains the one datapoint.
C8_SameFlow ==
    [][\A payload \in Payloads :
          (payload.kind = "ok" /\ payload.name \in DOMAIN flowMap
              /\ receiveData(payload)) =>
             LET old == flowMap[payload.name]
                 new == flowMap'[payload.name]
             IN  /\ DOMAIN flowMap' = DOMAIN flowMap
                 /\ new.capacity = old.capacity
                 /\ new.head = old.head
                 /\ DOMAIN new.datapoints = DOMAIN old.datapoints
                 /\ new.datapoints[old.head].count = old.datapoints[old.head].count + 1
                 /\ new.datapoints[old.head].sum
                        = old.datapoints[old.head].sum + payload.value
                 /\ \A i \in DOMAIN old.datapoints :
                       i # old.head => new.datapoints[i] = old.datapoints[i]
    ]_vars

\* two datagrams of one second sit together in the current bucket
C8_Witness ==
    /\ last.op = "receive" /\ last.Success
    /\ \E name \in DOMAIN flowMap :
          /\ flowMap[name].datapoints[flowMap[name].head].count = 2
          /\ MovingAverage(flowMap[name], 1).num # 0

\* ------------------------------------------------------------------- C9
\* C9: with ImplicitCreate off, a datagram for a name that is not registered
\* is dropped as "unknown flow": no flow is created and no flow changes.
C9_UnknownDropped ==
    [][\A payload \in Payloads :
          (payload.kind = "ok" /\ payload.name \notin DOMAIN flowMap
              /\ ~config.ImplicitCreate /\ receiveData(payload)) =>
             /\ flowMap' = flowMap
             /\ ~last'.Success
             /\ last'.Error = "unknown flow"
    ]_vars

\* a datagram was dropped as "unknown flow" while another flow held samples
C9_Witness ==
    /\ last.op = "receive"
    /\ last.Error = "unknown flow"
    /\ ~config.ImplicitCreate
    /\ \E name \in DOMAIN flowMap : ~AllZero(flowMap[name])

\* ------------------------------------------------------------------ C10
\* C10: with ImplicitCreate on, a datagram for a name that is not registered
\* adds exactly that name, with capacity DefaultExpire, head 0 and every
\* bucket zero but the current one, which is {1, value}; the flows that were
\* there stay as they were.
C10_ImplicitCreate ==
    [][\A payload \in Payloads :
          (payload.kind = "ok" /\ payload.name \notin DOMAIN flowMap
              /\ config.ImplicitCreate /\ receiveData(payload)) =>
             /\ DOMAIN flowMap' = DOMAIN flowMap \cup {payload.name}
             /\ \A name \in DOMAIN flowMap : flowMap'[name] = flowMap[name]
             /\ LET new == flowMap'[payload.name]
                IN  /\ new.capacity = config.DefaultExpire
                    /\ new.head = 0
                    /\ DOMAIN new.datapoints = 0..(config.DefaultExpire - 1)
                    /\ new.datapoints[0] = [count |-> 1, sum |-> payload.value]
                    /\ \A i \in 1..(config.DefaultExpire - 1) :
                          new.datapoints[i] = datapointsGroup
    ]_vars

\* a second flow has just been created next to one that holds samples
C10_Witness ==
    /\ last.op = "receive" /\ last.Success
    /\ config.ImplicitCreate
    /\ config.PredefinedFlows = <<>>
    /\ DOMAIN flowMap = Names
    /\ \E name \in Names :
          /\ stat[name].adds = 1
          /\ stat[name].advances = 0
          /\ flowMap[name].capacity = 2
          /\ \E other \in Names \ {name} : stat[other].advances > 0

\* ======================================================================
\* SpecBoot: init() one predefined flow at a time, then whole handlers as in
\* Spec, for every DefaultExpire a configuration file can give (0 included)
\* and with the run-time panics of a flow of capacity 0.
\* ======================================================================
ConfigsBoot ==
    [ImplicitCreate : BOOLEAN, DefaultExpire : 0..MaxExpire,
     PredefinedFlows : PredefinedLists]

InitBoot ==
    /\ config \in ConfigsBoot
    /\ flowMap = <<>>
    /\ stat = <<>>
    /\ nSamples = 0
    /\ nTicks = 0
    /\ last = Report("init", TRUE, "", Absent)
    /\ boot = 0
    /\ panicked = ""
    /\ ticker = IdleTicker
    /\ receiver = IdleReceiver
    /\ handler = IdleHandler
    /\ made = [n \in Names |-> 0]
    /\ born = <<>>
    /\ quiet = <<>>
    /\ run = <<>>

Running == boot = Len(config.PredefinedFlows) /\ panicked = ""

\* init(): one turn of the loop over config.Flows.PredefinedFlows
BootFlow ==
    /\ boot < Len(config.PredefinedFlows)
    /\ panicked = ""
    /\ LET predefinedFlow == config.PredefinedFlows[boot + 1]
       IN  /\ flowMap' = initFlow(flowMap, config.DefaultExpire,
                                  predefinedFlow.Name, predefinedFlow.Expire)
           /\ stat' = [n \in DOMAIN flowMap' |->
                         IF n = predefinedFlow.Name THEN FreshStat ELSE stat[n]]
           /\ made' = [made EXCEPT ![predefinedFlow.Name] = @ + 1]
    /\ boot' = boot + 1
    /\ UNCHANGED <<config, nSamples, nTicks, last, panicked, ticker, receiver,
                   handler, born, quiet, run>>

\* receiveData once init() has returned; addData on a flow without buckets
\* panics with "index out of range"
BootReceive(payload) ==
    LET flowName == payload.name
        exists == flowName \in DOMAIN flowMap
        creates == payload.kind = "ok" /\ ~exists /\ config.ImplicitCreate
        created == IF creates
                   THEN initFlow(flowMap, config.DefaultExpire, flowName, 0)
                   ELSE flowMap
        stores == payload.kind = "ok" /\ flowName \in DOMAIN created
    IN
    /\ Running
    /\ made' = IF creates THEN [made EXCEPT ![flowName] = @ + 1] ELSE made
    /\ IF stores /\ created[flowName].capacity = 0
       THEN /\ panicked' = "index out of range"
            /\ flowMap' = created
            /\ stat' = [n \in DOMAIN created |->
                          IF n \in DOMAIN stat THEN stat[n] ELSE FreshStat]
            /\ UNCHANGED <<config, nSamples, nTicks, last>>
       ELSE /\ receiveData(payload)
            /\ UNCHANGED panicked
    /\ UNCHANGED <<boot, ticker, receiver, handler, born, quiet, run>>

\* one tick once init() has returned; advanceHead on a flow of capacity 0
\* panics with "integer divide by zero", after the range has advanced any
\* of the other flows
BootTick ==
    LET broken == {n \in DOMAIN flowMap : flowMap[n].capacity = 0}
    IN
    /\ Running
    /\ IF broken # {}
       THEN /\ nTicks < MaxTicks
            /\ \E before \in SUBSET (DOMAIN flowMap \ broken) :
                  /\ flowMap' = [n \in DOMAIN flowMap |->
                                   IF n \in before THEN advanceHead(flowMap[n])
                                   ELSE flowMap[n]]
                  /\ stat' = [n \in DOMAIN stat |->
                                IF n \in before
                                THEN [stat[n] EXCEPT !.advances = @ + 1,
                                                     !.sinceAdd = @ + 1]
                                ELSE stat[n]]
            /\ panicked' = "integer divide by zero"
            /\ UNCHANGED <<config, nSamples, nTicks, last>>
       ELSE /\ Tick
            /\ UNCHANGED panicked
    /\ UNCHANGED <<boot, ticker, receiver, handler, made, born, quiet, run>>

\* one request once init() has returned
BootMeter(flowName, windowValue) ==
    /\ Running
    /\ httpMeter(flowName, windowValue)
    /\ UNCHANGED stepVars

NextBoot ==
    \/ BootFlow
    \/ \E payload \in Payloads : BootReceive(payload)
    \/ BootTick
    \/ \E flowName \in FlowValues, windowValue \in WindowValues :
          BootMeter(flowName, windowValue)

SpecBoot == InitBoot /\ [][NextBoot]_vars

\* ======================================================================
\* SpecConc: the three goroutines statement by statement. init() has
\* returned; the ticker goroutine ranges over flowMap on every tick, one
\* goroutine loops over receiveData, and an HTTP goroutine serves /meter.
\* Nothing in the source orders their accesses to flowMap or to a flowData.
\* Here a response lives in handler.response until httpMeter returns, `last`
\* is left alone, and of `stat` only the advances are counted; run counts
\* the samples.
\* ======================================================================
\* ticks over a run of the statement-level specifications: enough for the
\* head of the largest flow to come round
MaxSweeps == MaxExpire

ConfigsConc ==
    [ImplicitCreate : {FALSE}, DefaultExpire : {1},
     PredefinedFlows : {<<FlowConfig("cpu", MaxExpire)>>}]

InitConc ==
    /\ config \in ConfigsConc
    /\ flowMap = initFlows(<<>>, config.DefaultExpire, config.PredefinedFlows)
    /\ stat = [n \in DOMAIN flowMap |-> FreshStat]
    /\ nSamples = 0
    /\ nTicks = 0
    /\ last = Report("init", TRUE, "", Absent)
    /\ AfterInit(flowMap, config.PredefinedFlows)

\* no write to the flow `name` is half done when the ticker is at `tk` and
\* the receiver at `rc`
QuietFlow(name, tk, rc) ==
    /\ ~(tk.pc = "clear" /\ tk.cur = name)
    /\ ~(rc.pc = "sum" /\ rc.flowName = name)

\* what a step of the ticker or the receiver leaves to observe: the flows
\* that are quiet after it, and for a scan in progress the average its
\* window has in such a flow
Observe ==
    /\ quiet' = [n \in DOMAIN flowMap' |->
                   IF QuietFlow(n, ticker', receiver') THEN flowMap'[n]
                   ELSE quiet[n]]
    /\ handler' =
         IF handler.pc = "scan"
               /\ QuietFlow(handler.flowName, ticker', receiver')
         THEN [handler EXCEPT !.allowed =
                  @ \cup {MovingAverage(flowMap'[handler.flowName], handler.n)}]
         ELSE handler

\* ------------------------------------------------------ ticker goroutine
\* a tick arrives: the range over flowMap begins
T_Tick ==
    /\ panicked = ""
    /\ ticker.pc = "idle"
    /\ nTicks < MaxSweeps
    /\ ticker' = [pc |-> "range", atStart |-> DOMAIN flowMap,
                  visited |-> {}, cur |-> ""]
    /\ UNCHANGED <<config, flowMap, stat, nSamples, nTicks, last, boot,
                   panicked, receiver, handler, made, born, quiet, run>>

\* the range yields a flow it has not yielded yet, and advanceHead moves its
\* head
T_Head(name) ==
    /\ panicked = ""
    /\ ticker.pc = "range"
    /\ name \in DOMAIN flowMap \ ticker.visited
    /\ flowMap' = [flowMap EXCEPT ![name].head = (@ + 1) % flowMap[name].capacity]
    /\ ticker' = [ticker EXCEPT !.pc = "clear", !.cur = name]
    /\ stat' = [stat EXCEPT ![name].advances = @ + 1]
    /\ receiver' = IF receiver.pc = "sum" /\ receiver.flowName = name
                   THEN [receiver EXCEPT !.crossed = TRUE] ELSE receiver
    /\ run' = [run EXCEPT ![name] = FreshRun(flowMap'[name])]
    /\ Observe
    /\ UNCHANGED <<config, nSamples, nTicks, last, boot, panicked, made, born>>

\* advanceHead clears the bucket at the head
T_Clear ==
    /\ panicked = ""
    /\ ticker.pc = "clear"
    /\ LET name == ticker.cur
       IN  /\ flowMap' = [flowMap EXCEPT
                            ![name].datapoints[flowMap[name].head] = datapointsGroup]
           /\ ticker' = [ticker EXCEPT !.pc = "range", !.cur = "",
                                       !.visited = @ \cup {name}]
           /\ receiver' = IF receiver.pc = "sum" /\ receiver.flowName = name
                          THEN [receiver EXCEPT !.crossed = TRUE] ELSE receiver
           /\ run' = [run EXCEPT ![name] = FreshRun(flowMap'[name])]
    /\ Observe
    /\ UNCHANGED <<config, stat, nSamples, nTicks, last, boot, panicked, made,
                   born>>

\* a range that stops before it has yielded every flow
T_Done_Early ==
    /\ panicked = ""
    /\ ticker.pc = "range"
    /\ ticker' = IdleTicker
    /\ nTicks' = nTicks + 1
    /\ UNCHANGED <<config, flowMap, stat, nSamples, last, boot, panicked,
                   receiver, handler, made, born, quiet, run>>

\* the range ends: it has yielded every flow that was there when it began
\* (a flow inserted meanwhile may have been yielded or not)
T_Done ==
    /\ panicked = ""
    /\ ticker.pc = "range"
    /\ ticker.atStart \subseteq ticker.visited
    /\ ticker' = IdleTicker
    /\ nTicks' = nTicks + 1
    /\ UNCHANGED <<config, flowMap, stat, nSamples, last, boot, panicked,
                   receiver, handler, made, born, quiet, run>>

\* ---------------------------------------------------- receiver goroutine
\* receiveData reads and parses a datagram and looks the flow up
R_Read(payload) ==
    LET flowName == payload.name
        exists == flowName \in DOMAIN flowMap
    IN
    /\ panicked = ""
    /\ receiver.pc = "idle"
    /\ IF payload.kind # "ok" \/ (~exists /\ ~config.ImplicitCreate)
       THEN UNCHANGED receiver
       ELSE /\ nSamples < MaxSamples
            /\ receiver' = [pc |-> IF exists THEN "count" ELSE "insert",
                            flowName |-> flowName, value |-> payload.value,
                            index |-> 0, crossed |-> FALSE]
    /\ UNCHANGED <<config, flowMap, stat, nSamples, nTicks, last, boot,
                   panicked, ticker, handler, made, born, quiet, run>>

\* initFlow stores the new flowData in flowMap
R_Insert ==
    /\ panicked = ""
    /\ receiver.pc = "insert"
    /\ LET name == receiver.flowName
       IN  /\ flowMap' = initFlow(flowMap, config.DefaultExpire, name, 0)
           /\ stat' = [n \in DOMAIN flowMap' |->
                         IF n = name THEN FreshStat ELSE stat[n]]
           /\ made' = [made EXCEPT ![name] = @ + 1]
           /\ born' = [n \in DOMAIN flowMap' |->
                         IF n = name THEN FreshBorn(nTicks, ticker.pc # "idle")
                         ELSE born[n]]
           /\ run' = [n \in DOMAIN flowMap' |->
                        IF n = name THEN FreshRun(flowMap'[name]) ELSE run[n]]
    /\ receiver' = [receiver EXCEPT !.pc = "count"]
    /\ UNCHANGED ticker
    /\ Observe
    /\ UNCHANGED <<config, nSamples, nTicks, last, boot, panicked>>

\* an addData whose count++ lands in the head bucket of every flow, as it
\* would if the flows shared their bucket array
R_Count_Shared ==
    /\ panicked = ""
    /\ receiver.pc = "count"
    /\ LET name == receiver.flowName
           head == flowMap[name].head
       IN  /\ flowMap' = [n \in DOMAIN flowMap |->
                            [flowMap[n] EXCEPT
                               !.datapoints[flowMap[n].head].count = @ + 1]]
           /\ receiver' = [receiver EXCEPT !.pc = "sum", !.index = head,
                              !.crossed = ticker.pc = "clear" /\ ticker.cur = name]
    /\ UNCHANGED ticker
    /\ Observe
    /\ UNCHANGED <<config, stat, nSamples, nTicks, last, boot, panicked, made,
                   born, run>>

\* addData: fm.datapoints[fm.head].count++
R_Count ==
    /\ panicked = ""
    /\ receiver.pc = "count"
    /\ LET name == receiver.flowName
           head == flowMap[name].head
       IN  /\ flowMap' = [flowMap EXCEPT ![name].datapoints[head].count = @ + 1]
           /\ receiver' = [receiver EXCEPT !.pc = "sum", !.index = head,
                              !.crossed = ticker.pc = "clear" /\ ticker.cur = name]
    /\ UNCHANGED ticker
    /\ Observe
    /\ UNCHANGED <<config, stat, nSamples, nTicks, last, boot, panicked, made,
                   born, run>>

\* an addData that stores the point as the sum
R_Sum_Overwrites ==
    /\ panicked = ""
    /\ receiver.pc = "sum"
    /\ LET name == receiver.flowName
           head == flowMap[name].head
           clean == ~receiver.crossed /\ head = receiver.index
                        /\ ~(ticker.pc = "clear" /\ ticker.cur = name)
       IN  /\ flowMap' = [flowMap EXCEPT
                            ![name].datapoints[head].sum = receiver.value]
           /\ receiver' = [receiver EXCEPT
                             !.pc = IF clean THEN "stored" ELSE "torn"]
           /\ run' = [run EXCEPT ![name] =
                        IF clean
                        THEN [@ EXCEPT !.calls = @ + 1,
                                        !.total = @ + receiver.value]
                        ELSE FreshRun(flowMap'[name])]
    /\ nSamples' = nSamples + 1
    /\ UNCHANGED ticker
    /\ Observe
    /\ UNCHANGED <<config, stat, nTicks, last, boot, panicked, made, born>>

\* addData: fm.datapoints[fm.head].sum += point. The call ends "stored" when
\* no statement of advanceHead on this flow ran between or around its two
\* statements, and "torn" otherwise
R_Sum ==
    /\ panicked = ""
    /\ receiver.pc = "sum"
    /\ LET name == receiver.flowName
           head == flowMap[name].head
           clean == ~receiver.crossed /\ head = receiver.index
                        /\ ~(ticker.pc = "clear" /\ ticker.cur = name)
       IN  /\ flowMap' = [flowMap EXCEPT
                            ![name].datapoints[head].sum = @ + receiver.value]
           /\ receiver' = [receiver EXCEPT
                             !.pc = IF clean THEN "stored" ELSE "torn"]
           /\ run' = [run EXCEPT ![name] =
                        IF clean
                        THEN [@ EXCEPT !.calls = @ + 1,
                                        !.total = @ + receiver.value]
                        ELSE FreshRun(flowMap'[name])]
    /\ nSamples' = nSamples + 1
    /\ UNCHANGED ticker
    /\ Observe
    /\ UNCHANGED <<config, stat, nTicks, last, boot, panicked, made, born>>

\* receiveData returns
R_Return ==
    /\ panicked = ""
    /\ receiver.pc \in {"stored", "torn"}
    /\ receiver' = IdleReceiver
    /\ UNCHANGED <<config, flowMap, stat, nSamples, nTicks, last, boot,
                   panicked, ticker, handler, made, born, quiet, run>>

\* -------------------------------------------------------- HTTP goroutine
\* httpMeter checks the form values and looks the flow up; for a flow that
\* is there, MovingAverage and NLastPoints begin
H_Call(flowName, windowValue) ==
    LET win == ParseUint(windowValue)
        found == flowName # "" /\ windowValue # "" /\ ~win.err
                    /\ flowName \in DOMAIN flowMap
    IN
    /\ panicked = ""
    /\ handler.pc = "idle"
    /\ IF found
       THEN handler' = [IdleHandler EXCEPT
                          !.pc = "scan", !.flowName = flowName, !.n = win.val,
                          !.allowed = {MovingAverage(quiet[flowName], win.val)}]
       ELSE handler' = [IdleHandler EXCEPT
                          !.pc = "respond",
                          !.response = meterResponse(flowName, windowValue)]
    /\ UNCHANGED <<config, flowMap, stat, nSamples, nTicks, last, boot,
                   panicked, ticker, receiver, made, born, quiet, run>>

\* NLastPoints copies one bucket: points[i] = fm.datapoints[index], and the
\* range loop of MovingAverage adds it up
H_Point ==
    /\ panicked = ""
    /\ handler.pc = "scan"
    /\ LET fm == flowMap[handler.flowName]
           n == IF handler.n > fm.capacity THEN fm.capacity ELSE handler.n
           index == (fm.capacity + fm.head - handler.i) % fm.capacity
       IN  /\ handler.i < n
           /\ handler' = [handler EXCEPT
                            !.i = @ + 1,
                            !.count = @ + fm.datapoints[index].count,
                            !.sum = @ + fm.datapoints[index].sum]
    /\ UNCHANGED <<config, flowMap, stat, nSamples, nTicks, last, boot,
                   panicked, ticker, receiver, made, born, quiet, run>>

\* MovingAverage divides, and httpMeter fills templateData
H_Average ==
    /\ panicked = ""
    /\ handler.pc = "scan"
    /\ LET fm == flowMap[handler.flowName]
           n == IF handler.n > fm.capacity THEN fm.capacity ELSE handler.n
       IN  handler.i >= n
    /\ handler' = [handler EXCEPT
                     !.pc = "respond",
                     !.response = Report("meter", TRUE, "",
                                     IF handler.count = 0 THEN Float(0)
                                     ELSE Quot(handler.sum, handler.count))]
    /\ UNCHANGED <<config, flowMap, stat, nSamples, nTicks, last, boot,
                   panicked, ticker, receiver, made, born, quiet, run>>

\* httpMeter returns
H_Return ==
    /\ panicked = ""
    /\ handler.pc = "respond"
    /\ handler' = IdleHandler
    /\ UNCHANGED <<config, flowMap, stat, nSamples, nTicks, last, boot,
                   panicked, ticker, receiver, made, born, quiet, run>>

\* ------------------------------------------------------------ the runtime
\* the accesses to flowMap that overlap the write of initFlow: the range of
\* the ticker, when one is under way, and the lookup of a request, which can
\* come at any time
MapReaders ==
    {"concurrent map read and map write"}
    \cup (IF ticker.pc # "idle"
          THEN {"concurrent map iteration and map write"} ELSE {})

\* the Go runtime notices a map access that overlaps the map write and
\* throws; it may as well not notice
Fault ==
    /\ panicked = ""
    /\ receiver.pc = "insert"
    /\ \E error \in MapReaders : panicked' = error
    /\ UNCHANGED <<config, flowMap, stat, nSamples, nTicks, last, boot,
                   ticker, receiver, handler, made, born, quiet, run>>

\* the requests of this deployment ask for the whole history of a flow, or
\* give no window
WindowValuesConc == {"", WindowText(MaxExpire)}

NextConc ==
    \/ T_Tick
    \/ \E name \in Names : T_Head(name)
    \/ T_Clear
    \/ T_Done
    \/ \E payload \in Payloads : R_Read(payload)
    \/ R_Count
    \/ R_Sum
    \/ R_Return
    \/ \E flowName \in FlowValues, windowValue \in WindowValuesConc :
          H_Call(flowName, windowValue)
    \/ H_Point
    \/ H_Average
    \/ H_Return

SpecConc == InitConc /\ [][NextConc]_vars

\* ======================================================================
\* SpecSweep: the same goroutines in a deployment that creates flows on
\* their first sample, so that the receiver writes flowMap while the ticker
\* ranges over it and requests look flows up.
\* ======================================================================
ConfigsSweep ==
    [ImplicitCreate : {TRUE}, DefaultExpire : {1},
     PredefinedFlows : {<<FlowConfig("cpu", MaxExpire)>>}]

InitSweep ==
    /\ config \in ConfigsSweep
    /\ flowMap = initFlows(<<>>, config.DefaultExpire, config.PredefinedFlows)
    /\ stat = [n \in DOMAIN flowMap |-> FreshStat]
    /\ nSamples = 0
    /\ nTicks = 0
    /\ last = Report("init", TRUE, "", Absent)
    /\ AfterInit(flowMap, config.PredefinedFlows)

\* the datagrams of this deployment all carry the same value, and its
\* requests all ask for the last second
PayloadsSweep == {payload \in Payloads : payload.value \in {0, 1}}

NextSweep ==
    \/ T_Tick
    \/ \E name \in Names : T_Head(name)
    \/ T_Clear
    \/ T_Done
    \/ \E payload \in PayloadsSweep : R_Read(payload)
    \/ R_Insert
    \/ R_Count
    \/ R_Sum
    \/ R_Return
    \/ \E flowName \in FlowValues : H_Call(flowName, WindowText(1))
    \/ H_Point
    \/ H_Average
    \/ H_Return
    \/ Fault

SpecSweep == InitSweep /\ [][NextSweep]_vars

C12_AddAdvanceExclusive == receiver.pc # "torn"

\* ------------------------------------------------------------------ C13
\* C13: the average a /meter request returns is the average its window has
\* in a state of the flow in which no write is half done, reached between
\* the call and the return.
C13_NoTornRead ==
    (handler.pc = "respond" /\ handler.flowName # "") =>
        handler.response.Average \in handler.allowed

\* ------------------------------------------------------------------ C15
\* C15: the range of the ticker over flowMap and the lookup of a request
\* tolerate the insertion of a flow by receiveData: the process never dies
\* of it, and the write of initFlow to flowMap never overlaps a range that
\* is under way.
C15_RegistryTolerant ==
    /\ panicked = ""
    /\ ~(receiver.pc = "insert" /\ ticker.pc # "idle")

\* ------------------------------------------------------------------ C19
\* C19: in every reachable state, whatever the interleaving, a bucket whose
\* count is 0 has sum 0.
C19_ZeroCountZeroSum ==
    \A name \in DOMAIN flowMap :
        \A i \in 0..(flowMap[name].capacity - 1) :
            flowMap[name].datapoints[i].count = 0 =>
                flowMap[name].datapoints[i].sum = 0

\* ------------------------------------------------------------------ C20
\* the flow has had its advanceHead in the range that is under way
Swept(name) == name \in ticker.visited \/ ticker.cur = name

\* C20: a tick advances every flow that is in flowMap for the whole range
\* exactly once and a flow inserted during the range at most once, and
\* nothing else moves a head: the head of a flow is the number of its
\* advances modulo its capacity, and but for the range under way a flow has
\* one advance for each tick since its creation, where the range it was
\* inserted under may have passed it by.
C20_HeadFollowsTicks ==
    \A name \in DOMAIN flowMap :
        LET advances == stat[name].advances - (IF Swept(name) THEN 1 ELSE 0)
            t == nTicks - born[name].at
        IN  /\ flowMap[name].head = stat[name].advances % flowMap[name].capacity
            /\ IF born[name].mid /\ t >= 1
               THEN advances \in {t - 1, t}
               ELSE advances = t

\* every tick of the run is over; the head of a predefined flow has come
\* round, and a flow inserted under a range was passed by in that range
C20_Witness ==
    /\ ticker.pc = "idle"
    /\ nTicks = MaxSweeps
    /\ \E name \in DOMAIN flowMap :
          /\ ~born[name].mid
          /\ flowMap[name].capacity >= 2
          /\ stat[name].advances = nTicks
    /\ \E name \in DOMAIN flowMap :
          /\ born[name].mid
          /\ stat[name].advances = nTicks - born[name].at - 1

\* ------------------------------------------------------------------ C14
\* the entries of the predefined list name different flows
NoDuplicate(list) == \A n \in Names : Occurrences(list, n) <= 1

\* C14: every registered name has had exactly one flowData allocated for it,
\* and every other name none: the instance a name maps to is never replaced.
C14_OneInstance ==
    \A n \in Names :
        /\ made[n] <= 1
        /\ made[n] = 1 <=> n \in DOMAIN flowMap

\* what remains of C14 for predefined lists without a duplicate name
C14_OneInstanceUnlessDuplicate ==
    NoDuplicate(config.PredefinedFlows) => C14_OneInstance

\* a name, once registered, stays registered
C14_NeverRemoved == [][DOMAIN flowMap \subseteq DOMAIN flowMap']_vars

\* ------------------------------------------------------------------ C16
\* C16: when init() comes to a predefined entry whose name is registered
\* already, startup fails and the flow that is registered stays.
C16_DuplicateFails ==
    [][(boot' = boot + 1
          /\ config.PredefinedFlows[boot + 1].Name \in DOMAIN flowMap) =>
            /\ panicked' # ""
            /\ flowMap' = flowMap
    ]_vars

\* ------------------------------------------------------------------ C17
\* C17: initFlow(name, expire) leaves under `name` a flow of capacity expire
\* if expire > 0 and DefaultExpire otherwise, with head 0 and exactly
\* capacity buckets, all {0, 0}.
C17_CreateFlow ==
    [][boot' = boot + 1 =>
        LET predefinedFlow == config.PredefinedFlows[boot + 1]
            capacity == IF predefinedFlow.Expire > 0 THEN predefinedFlow.Expire
                        ELSE config.DefaultExpire
            new == flowMap'[predefinedFlow.Name]
        IN  /\ new.capacity = capacity
            /\ new.head = 0
            /\ DOMAIN new.datapoints = 0..(capacity - 1)
            /\ \A i \in 0..(capacity - 1) : new.datapoints[i] = datapointsGroup
    ]_vars

\* init() has created one flow with its own expire and one with the default,
\* and the two capacities differ
C17_Witness ==
    /\ boot = 2
    /\ config.PredefinedFlows[1].Expire > 0
    /\ config.PredefinedFlows[1].Expire # config.DefaultExpire
    /\ config.PredefinedFlows[2].Name # config.PredefinedFlows[1].Name
    /\ flowMap[config.PredefinedFlows[1].Name].capacity
          = config.PredefinedFlows[1].Expire
    /\ config.DefaultExpire > 0

\* ------------------------------------------------------------------ C18
\* C18: whatever DefaultExpire and the predefined expires are, every flow
\* has capacity >= 1, 0 <= head < capacity and capacity buckets, so that no
\* advanceHead or bucket access panics.
C18_CapacityValid ==
    /\ panicked = ""
    /\ \A n \in DOMAIN flowMap :
          /\ flowMap[n].capacity >= 1
          /\ flowMap[n].head \in 0..(flowMap[n].capacity - 1)
          /\ DOMAIN flowMap[n].datapoints = 0..(flowMap[n].capacity - 1)

\* what remains of C18 when DefaultExpire is at least 1
C18_ValidUnlessZeroDefault ==
    config.DefaultExpire >= 1 => C18_CapacityValid

\* capacity is fixed at creation
C18_CapacityFixed ==
    [][\A n \in DOMAIN flowMap :
          (n \in DOMAIN flowMap' /\ made'[n] = made[n]) =>
              flowMap'[n].capacity = flowMap[n].capacity
    ]_vars

\* ------------------------------------------------------------------ C21
\* C21: the sample a flow received last is counted by MovingAverage(n)
\* exactly while fewer than min(n, capacity) advanceHead calls have followed
\* it: with k calls since, k < capacity, its bucket is the one k behind the
\* head, still holds a datapoint, and lies in the window of n seconds iff
\* k < min(n, capacity); once k reaches the capacity the bucket has been
\* overwritten and no window counts anything. For a flow that has received
\* this one sample only, MovingAverage(n) is its value in the first case and
\* 0 in the second.
C21_CountedWhileFresh ==
    \A name \in DOMAIN flowMap :
        stat[name].adds > 0 =>
            LET fm == flowMap[name]
                k == stat[name].sinceAdd
                bucket == (fm.capacity + fm.head - k) % fm.capacity
            IN  \A n \in Windows \cup {MaxExpire + 2} :
                    LET counted == k < Min(n, fm.capacity)
                    IN  /\ k < fm.capacity =>
                              /\ fm.datapoints[bucket].count >= 1
                              /\ bucket \in Covered(fm, n) <=> counted
                        /\ counted => CountOver(fm, Covered(fm, n)) >= 1
                        /\ k >= fm.capacity =>
                              /\ AllZero(fm)
                              /\ MovingAverage(fm, n) = Float(0)
                        /\ stat[name].adds = 1 =>
                              MovingAverage(fm, n)
                                  = IF counted THEN Float(stat[name].total)
                                    ELSE Float(0)

\* a sample capacity - 1 seconds old, which only the widest window counts,
\* in a ring of two buckets
C21_Witness ==
    \E name \in DOMAIN flowMap :
        LET fm == flowMap[name]
        IN  /\ fm.capacity = 2
            /\ stat[name].adds = 1
            /\ stat[name].sinceAdd = fm.capacity - 1
            /\ MovingAverage(fm, fm.capacity) = Float(stat[name].total)
            /\ MovingAverage(fm, 1) = Float(0)

\* the same sample after one more second: overwritten
C21_WitnessExpired ==
    \E name \in DOMAIN flowMap :
        LET fm == flowMap[name]
        IN  /\ fm.capacity = 2
            /\ stat[name].adds = 1
            /\ stat[name].sinceAdd = fm.capacity
            /\ AllZero(fm)

\* ------------------------------------------------------------------ C22
\* the step is a statement of advanceHead or addData on the flow `name`
WritesFlow(name) ==
    \/ T_Head(name)
    \/ T_Clear /\ ticker.cur = name
    \/ R_Count /\ receiver.flowName = name
    \/ R_Sum /\ receiver.flowName = name

\* C22: flows are independent: a statement of addData or advanceHead on one
\* flow, a step of a MovingAverage scan, and the initFlow of a new name leave
\* the buckets, head and capacity of every other flow in flowMap as they
\* were, and no flow leaves flowMap; so a flow changes only in a statement
\* of addData or advanceHead on that very flow.
C22_FlowsIndependent ==
    [][\A name \in DOMAIN flowMap :
          /\ name \in DOMAIN flowMap'
          /\ flowMap'[name] # flowMap[name] => WritesFlow(name)
    ]_vars

\* a range has moved the head of one flow and is about to clear its bucket,
\* while another flow it has not come to yet, created by its first sample,
\* still has its head where it was and the sample in its bucket
C22_Witness ==
    \E a, b \in DOMAIN flowMap :
        /\ a # b
        /\ ticker.pc = "clear" /\ ticker.cur = b
        /\ flowMap[b].head = 1
        /\ a \notin ticker.visited
        /\ made[a] = 1 /\ born[a].at = nTicks
        /\ stat[a].advances = 0
        /\ flowMap[a].datapoints[flowMap[a].head].count = 1

====
